---- MODULE Spec2Model ----
(***************************************************************************)
(* The cluster registry of ysicing/nexus: the store-backed manager         *)
(* (pkg/cluster/manager_db.go), its persistence adapter                    *)
(* (pkg/models/cluster.go) and the health checker that probes the          *)
(* registry's records.                                                     *)
(*                                                                         *)
(* ClusterInfo values live on a heap, because the registry map, the        *)
(* in-flight AddCluster call and the in-flight probes all hold pointers    *)
(* to the same object.  An object no pointer reaches is collected.  An     *)
(* address is the id the object was built with and a generation: two       *)
(* objects with the same id are two objects.                               *)
(***************************************************************************)
EXTENDS Integers, FiniteSets, Sequences, TLC

(* ------------------------------ bounds -------------------------------- *)
MaxClock == 2
MaxGen == 1
NumProcs == 2
NumStarts == 2
MaxRestarts == 1
MaxFiles == 2

(* ------------------------------ domains ------------------------------- *)
Procs == 1..NumProcs
Starts == 1..NumStarts
Contexts == {"a"}
Names == {"A"}
Descriptions == {"d"}
NilLabels == [isNil |-> TRUE, m |-> {}]
ProdLabels == [isNil |-> FALSE, m |-> {<<"env", "prod">>}]
LabelValues == {NilLabels, ProdLabels}

InClusterID == "in-cluster"
KubeconfigID(contextName) == "kubeconfig-" \o contextName
CustomID(unix) == "custom-" \o ToString(unix)

ClusterStatusHealthy == "healthy"
ClusterStatusUnhealthy == "unhealthy"
ClusterStatusUnreachable == "unreachable"
ClusterStatusUnknown == "unknown"

(* kubeconfig contents handed to AddCluster, by what AddCluster makes of   *)
(* them: where the call returns, and the host of the resolved context.     *)
KubeconfigContents ==
  { [fails |-> "InvalidConfig", context |-> "", host |-> ""],
    [fails |-> "NoContext", context |-> "", host |-> ""],
    [fails |-> "ConfigFailed", context |-> "c", host |-> ""],
    [fails |-> "ClientFailed", context |-> "c", host |-> "h1"],
    [fails |-> "", context |-> "c", host |-> "h1"] }

VARIABLES
  clusters,    \* m.clusters: id -> pointer to a ClusterInfo
  heap,        \* the ClusterInfo objects, by address
  defaultID,   \* m.defaultID
  mu,          \* m.mu: [w |-> writer or 0, r |-> set of readers]
  store,       \* table "clusters": id -> row (soft-deleted rows included)
  dbUp,        \* whether the database answers
  clock,       \* time.Now().Unix()
  phase,       \* how far Initialize has got
  env,         \* the process environment: in-cluster or not, kubeconfig contexts
  pc,          \* position of each caller
  loc,         \* locals of each caller
  probe,       \* position of the health checker's probe of each object
  restarts,    \* number of process restarts so far
  hc,          \* the health checker: running flag, stopCh, each Start call
  last         \* the operation that completed in the last step

vars == <<clusters, heap, defaultID, mu, store, dbUp, clock, phase, env,
          pc, loc, probe, restarts, hc, last>>

(* ------------------------------ helpers ------------------------------- *)
Range(f) == {f[x] : x \in DOMAIN f}
Put(f, k, v) == [x \in DOMAIN f \cup {k} |-> IF x = k THEN v ELSE f[x]]
Drop(f, k) == [x \in DOMAIN f \ {k} |-> f[x]]

NoObj == [id |-> "", gen |-> 0]
(* The arguments of a call, where it has some. *)
NoArg == [name |-> "", description |-> "", host |-> "", labels |-> NilLabels,
          prom |-> FALSE]
(* What a caller holds between its steps: the id and the record it works *)
(* on, its arguments, and in the HTTP ListClusters handler the records    *)
(* still to convert (list) and the response built so far (resp).          *)
NoLoc == [id |-> "", addr |-> NoObj, arg |-> NoArg, list |-> {}, resp |-> {}]
None == [op |-> "none", id |-> "", err |-> "", ret |-> NoObj, list |-> {},
         midway |-> FALSE, arg |-> NoArg, outcome |-> "", since |-> 0]
Done(op, id, err) == [None EXCEPT !.op = op, !.id = id, !.err = err]

MuFree == mu.w = 0 /\ mu.r = {}
Persisted(st) == {i \in DOMAIN st : ~st[i].Deleted}

(* Objects some pointer still reaches; the rest is garbage. *)
Live(h, cl, lc, pr) ==
  [a \in {x \in DOMAIN h : \/ x \in Range(cl)
                          \/ \E p \in Procs : lc[p].addr = x \/ x \in lc[p].list
                          \/ \E k \in DOMAIN pr : k.a = x} |-> h[a]]
FreeGens(h, id) == {g \in 0..MaxGen : [id |-> id, gen |-> g] \notin DOMAIN h}
NewAddr(h, id) ==
  [id |-> id, gen |-> CHOOSE g \in FreeGens(h, id) : \A k \in FreeGens(h, id) : g <= k]

(* A health checker nobody has started: NewHealthChecker.  stopped is    *)
(* no field of the program: it remembers that Stop has been called.       *)
NewHealthChecker ==
  [running |-> FALSE, closed |-> FALSE, stopped |-> FALSE,
   pos |-> [s \in Starts |-> "none"]]

DefaultFlagged == {i \in DOMAIN clusters : heap[clusters[i]].IsDefault}

(* ----------------------- persistence adapter -------------------------- *)
(* db.Create is an INSERT: it fails when a row with that primary key      *)
(* exists, soft-deleted or not, and when the database is down.            *)
RepoCreate(st, row, up) ==
  IF up /\ row.ID \notin DOMAIN st THEN Put(st, row.ID, row) ELSE st

(* db.Delete on a model with gorm.DeletedAt sets the tombstone. *)
RepoDelete(st, id, up) ==
  IF up /\ id \in Persisted(st) THEN [st EXCEPT ![id].Deleted = TRUE] ELSE st

(* db.Find leaves the soft-deleted rows out. *)
RepoGetAll(st) == Persisted(st)

RepoUpdatePrometheusConfig(st, id, prom, up) ==
  IF up /\ id \in Persisted(st) THEN [st EXCEPT ![id].Prometheus = prom] ELSE st

(* json.Marshal of the labels, "" for an empty or nil map. *)
MarshalLabels(labels) ==
  IF Cardinality(labels.m) > 0 THEN [text |-> TRUE, m |-> labels.m]
  ELSE [text |-> FALSE, m |-> {}]
(* json.Unmarshal into a nil map; "" leaves the map nil. *)
UnmarshalLabels(json) ==
  IF json.text THEN [isNil |-> FALSE, m |-> json.m] ELSE NilLabels

ClusterModel(info, isInCluster) ==
  [ID |-> info.ID, Name |-> info.Name, Description |-> info.Description,
   Server |-> info.Server, Status |-> info.Status, Context |-> info.Context,
   Labels |-> MarshalLabels(info.Labels), IsDefault |-> info.IsDefault,
   IsInCluster |-> isInCluster, LastCheck |-> info.LastCheck,
   UpdatedAt |-> info.UpdatedAt, Prometheus |-> info.Prometheus,
   Deleted |-> FALSE]

saveClusterToDB(st, info, isInCluster, up) ==
  RepoCreate(st, ClusterModel(info, isInCluster), up)

(* hasClient: whether rebuilding the client from the environment worked. *)
modelToClusterInfo(model, hasClient) ==
  [ID |-> model.ID, Name |-> model.Name, Description |-> model.Description,
   Server |-> model.Server, Status |-> model.Status, Context |-> model.Context,
   Labels |-> UnmarshalLabels(model.Labels), IsDefault |-> model.IsDefault,
   LastCheck |-> model.LastCheck, UpdatedAt |-> model.UpdatedAt,
   Prometheus |-> model.Prometheus,
   Client |-> hasClient /\ (model.IsInCluster \/ model.Context # "")]

NewClusterInfo(id, name, server, context, labels, now) ==
  [ID |-> id, Name |-> name, Description |-> "", Server |-> server,
   Status |-> ClusterStatusUnknown, Context |-> context,
   Labels |-> labels, IsDefault |-> FALSE,
   LastCheck |-> 0, UpdatedAt |-> now, Prometheus |-> FALSE,
   Client |-> TRUE]

(* ------------------------------- Init --------------------------------- *)
Init ==
  /\ clusters = <<>>
  /\ heap = <<>>
  /\ defaultID = ""
  /\ mu = [w |-> 0, r |-> {}]
  /\ store = <<>>
  /\ dbUp = TRUE
  /\ clock = 1
  /\ phase = "new"
  /\ env \in [inCluster : BOOLEAN, contexts : SUBSET Contexts]
  /\ pc = [p \in Procs |-> "idle"]
  /\ loc = [p \in Procs |-> NoLoc]
  /\ probe = <<>>
  /\ restarts = 0
  /\ hc = NewHealthChecker
  /\ last = None

(* --------------------------- Initialize ------------------------------- *)
(* Stage 1.  GetAll fails as a whole when the database is down.  The rows  *)
(* come back in no particular order, so with several default rows the     *)
(* last one seen, which defaultID keeps, is any of them.  withClient: the *)
(* rows whose client could be rebuilt from the environment.               *)
loadClustersFromDB ==
  /\ phase = "new"
  /\ phase' = "loaded"
  /\ IF ~dbUp
     THEN /\ UNCHANGED <<clusters, heap, defaultID>>
          /\ last' = Done("loadClustersFromDB", "", "PersistenceFailed")
     ELSE LET rows == RepoGetAll(store)
              defaults == {i \in rows : store[i].IsDefault}
          IN /\ \E withClient \in SUBSET rows :
                \E lastDefault \in (IF defaults = {} THEN {""} ELSE defaults) :
                  /\ clusters' = [i \in rows |-> NewAddr(heap, i)]
                  /\ heap' = [a \in {NewAddr(heap, i) : i \in rows} |->
                                modelToClusterInfo(store[a.id], a.id \in withClient)]
                  /\ defaultID' = lastDefault
             /\ last' = Done("loadClustersFromDB", "", "")
  /\ UNCHANGED <<mu, store, dbUp, clock, env, pc, loc, probe, restarts, hc>>

(* Stage 2.  clientOK: whether kube.NewK8sClientFromConfig succeeds. *)
registerInCluster ==
  /\ phase = "loaded"
  /\ phase' = "incluster"
  /\ \E clientOK \in BOOLEAN :
       IF ~env.inCluster \/ InClusterID \in DOMAIN clusters
       THEN /\ UNCHANGED <<clusters, heap, defaultID, store>>
            /\ last' = Done("registerInCluster", "", "")
       ELSE IF ~clientOK
       THEN /\ UNCHANGED <<clusters, heap, defaultID, store>>
            /\ last' = Done("registerInCluster", InClusterID, "ConnectionFailed")
       ELSE /\ LET a == NewAddr(heap, InClusterID)
                   fresh == NewClusterInfo(InClusterID, "in-cluster", "in-host",
                                           "", NilLabels, clock)
                   info == [fresh EXCEPT !.IsDefault = (defaultID = "")]
               IN /\ clusters' = Put(clusters, InClusterID, a)
                  /\ heap' = Put(heap, a, info)
                  /\ defaultID' = IF defaultID = "" THEN InClusterID ELSE defaultID
                  /\ store' = saveClusterToDB(store, info, TRUE, dbUp)
            /\ last' = Done("registerInCluster", InClusterID, "")
  /\ UNCHANGED <<mu, dbUp, clock, env, pc, loc, probe, restarts, hc>>

(* Stage 3.  The contexts of the files of the kubeconfig directory, in    *)
(* the order the map iteration yields them: first is the one reached      *)
(* first among those whose client can be built (added).                   *)
RECURSIVE scanInsert(_, _, _, _, _)
scanInsert(todo, cl, h, d, st) ==
  IF todo = {} THEN [clusters |-> cl, heap |-> h, defaultID |-> d, store |-> st]
  ELSE LET c == CHOOSE x \in todo : TRUE
           id == KubeconfigID(c)
           a == NewAddr(h, id)
           fresh == NewClusterInfo(id, c, "host-" \o c, c, NilLabels, clock)
           info == [fresh EXCEPT !.IsDefault = (d = "")]
       IN scanInsert(todo \ {c}, Put(cl, id, a), Put(h, a, info),
                     IF d = "" THEN id ELSE d,
                     saveClusterToDB(st, info, FALSE, dbUp))

(* The scan without the look at the map. *)
scanTodoAll(ctxs, cl) == ctxs

(* The contexts a scan does not skip: their id is no key of the map. *)
scanTodo(ctxs, cl) == {c \in ctxs : KubeconfigID(c) \notin DOMAIN cl}

scanClustersInDir ==
  /\ phase = "incluster"
  /\ phase' = "scanned"
  /\ LET fresh == scanTodo(env.contexts, clusters)
     IN \E added \in SUBSET fresh :
          \E first \in (IF added = {} THEN {""} ELSE added) :
               LET one == IF first = "" THEN [clusters |-> clusters, heap |-> heap,
                                              defaultID |-> defaultID, store |-> store]
                          ELSE scanInsert({first}, clusters, heap, defaultID, store)
                   all == scanInsert(added \ {first}, one.clusters, one.heap,
                                     one.defaultID, one.store)
               IN /\ clusters' = all.clusters
                  /\ heap' = all.heap
                  /\ defaultID' = all.defaultID
                  /\ store' = all.store
  /\ last' = Done("scanClustersInDir", "", "")
  /\ UNCHANGED <<mu, dbUp, clock, env, pc, loc, probe, restarts, hc>>

(* The connection factory is a pure dependency: over unchanged files a    *)
(* context's client is built again exactly if it was built before, which  *)
(* the record of the context tells.                                       *)
ClientBuilt(c) ==
  /\ KubeconfigID(c) \in DOMAIN clusters
  /\ heap[clusters[KubeconfigID(c)]].Client

(* Stage 3 run once more over the same files, before stage 4. *)
scanClustersInDirAgain ==
  /\ phase = "scanned"
  /\ LET added == {c \in scanTodo(env.contexts, clusters) : ClientBuilt(c)}
         all == scanInsert(added, clusters, heap, defaultID, store)
     IN /\ clusters' = all.clusters
        /\ heap' = Live(all.heap, all.clusters, loc, probe)
        /\ defaultID' = all.defaultID
        /\ store' = all.store
  /\ last' = Done("scanClustersInDir", "again", "")
  /\ UNCHANGED <<mu, dbUp, clock, phase, env, pc, loc, probe, restarts, hc>>

(* Stage 4.  The first record of the map iteration is any record.         *)
ensureDefaultCluster ==
  /\ phase = "scanned"
  /\ phase' = "elected"
  /\ IF defaultID # ""
     THEN /\ UNCHANGED <<heap, defaultID, store>>
          /\ last' = Done("ensureDefaultCluster", defaultID, "")
     ELSE IF DOMAIN clusters = {}
     THEN /\ UNCHANGED <<heap, defaultID, store>>
          /\ last' = Done("ensureDefaultCluster", "", "NoClusters")
     ELSE \E id \in DOMAIN clusters :
            LET a == clusters[id]
                info == [heap[a] EXCEPT !.IsDefault = TRUE]
            IN /\ defaultID' = id
               /\ heap' = [heap EXCEPT ![a] = info]
               /\ store' = saveClusterToDB(store, info, id = InClusterID, dbUp)
               /\ last' = Done("ensureDefaultCluster", id, "")
  /\ UNCHANGED <<clusters, mu, dbUp, clock, env, pc, loc, probe, restarts, hc>>

(* Initialize as it would be if it handed the error of its last stage to  *)
(* its caller instead of logging it.                                      *)
InitializeReturnError ==
  /\ phase = "elected"
  /\ phase' = IF last.err = "" THEN "running" ELSE "crashed"
  /\ hc' = IF last.err = "" THEN [hc EXCEPT !.pos[1] = "called"] ELSE hc
  /\ last' = Done("Initialize", "", last.err)
  /\ UNCHANGED <<clusters, heap, defaultID, mu, store, dbUp, clock, env, pc, loc,
                 probe, restarts>>

(* go m.healthChecker.Start(); return nil: the first Start call is on its *)
(* way and Initialize reports success whatever the stages met.            *)
InitializeReturn ==
  /\ phase = "elected"
  /\ phase' = "running"
  /\ hc' = [hc EXCEPT !.pos[1] = "called"]
  /\ last' = Done("Initialize", "", "")
  /\ UNCHANGED <<clusters, heap, defaultID, mu, store, dbUp, clock, env, pc, loc,
                 probe, restarts>>

(* ---------------------------- AddCluster ------------------------------ *)
(* AddCluster as it would be with the record stored before the client is *)
(* built.                                                                 *)
AddClusterRejectStored(p, content) ==
  /\ last' = Done("AddCluster", "", content.fails)
  /\ IF content.fails = "ClientFailed" /\ FreeGens(heap, CustomID(clock)) # {}
     THEN LET id == CustomID(clock)
              a == NewAddr(heap, id)
              cl == Put(clusters, id, a)
          IN /\ clusters' = cl
             /\ heap' = Live(Put(heap, a, NewClusterInfo(id, "A", content.host,
                                    content.context, NilLabels, clock)),
                             cl, loc, probe)
     ELSE UNCHANGED <<clusters, heap>>
  /\ UNCHANGED <<defaultID, mu, store, dbUp, clock, phase, env, pc, loc, probe,
                 restarts, hc>>

(* The four early returns: nothing has been touched yet. *)
AddClusterReject(p, content) ==
  /\ last' = Done("AddCluster", "", content.fails)
  /\ UNCHANGED <<clusters, heap, defaultID, mu, store, dbUp, clock, phase, env,
                 pc, loc, probe, restarts, hc>>

AddClusterFail(p, content) ==
  /\ phase = "running" /\ pc[p] = "idle"
  /\ content.fails # ""
  /\ AddClusterReject(p, content)

(* The id is the clock's second; the record is built before the lock. *)
AddClusterBuild(p, name, description, content, labels) ==
  /\ phase = "running" /\ pc[p] = "idle"
  /\ content.fails = ""
  /\ FreeGens(heap, CustomID(clock)) # {}
  /\ LET clusterID == CustomID(clock)
         a == NewAddr(heap, clusterID)
         fresh == NewClusterInfo(clusterID, name, content.host,
                                 content.context, labels, clock)
     IN /\ heap' = Put(heap, a, [fresh EXCEPT !.Description = description])
        /\ loc' = [loc EXCEPT ![p] =
                     [NoLoc EXCEPT
                        !.id = clusterID, !.addr = a,
                        !.arg = [NoArg EXCEPT !.name = name,
                                              !.description = description,
                                              !.host = content.host,
                                              !.labels = labels]]]
  /\ pc' = [pc EXCEPT ![p] = "add_insert"]
  /\ last' = None
  /\ UNCHANGED <<clusters, defaultID, mu, store, dbUp, clock, phase, env,
                 probe, restarts, hc>>

(* m.mu.Lock(); m.clusters[clusterID] = clusterInfo; ...; m.mu.Unlock() *)
AddClusterInsert(p) ==
  /\ phase = "running" /\ pc[p] = "add_insert"
  /\ MuFree
  /\ LET a == loc[p].addr
         id == loc[p].id
         cl == Put(clusters, id, a)
         first == Cardinality(DOMAIN cl) = 1
     IN /\ clusters' = cl
        /\ defaultID' = IF first THEN id ELSE defaultID
        /\ heap' = Live(IF first THEN [heap EXCEPT ![a].IsDefault = TRUE] ELSE heap,
                        cl, loc, probe)
  /\ pc' = [pc EXCEPT ![p] = "add_save"]
  /\ last' = None
  /\ UNCHANGED <<mu, store, dbUp, clock, phase, env, loc, probe, restarts, hc>>

(* saveClusterToDB outside the lock, then return clusterInfo, nil *)
AddClusterSave(p) ==
  /\ phase = "running" /\ pc[p] = "add_save"
  /\ LET a == loc[p].addr
     IN /\ store' = saveClusterToDB(store, heap[a], FALSE, dbUp)
        /\ last' = [Done("AddCluster", loc[p].id, "")
                      EXCEPT !.ret = a, !.arg = loc[p].arg]
  /\ pc' = [pc EXCEPT ![p] = "idle"]
  /\ loc' = [loc EXCEPT ![p] = NoLoc]
  /\ heap' = Live(heap, clusters, loc', probe)
  /\ UNCHANGED <<clusters, defaultID, mu, dbUp, clock, phase, env, probe, restarts, hc>>

(* ------------------- the not-found and protected returns -------------- *)
(* The not-found return as it would be with the default pointer assigned  *)
(* before the lookup.                                                     *)
NotFoundReturnSetsDefault(op, id) ==
  /\ last' = Done(op, id, "NotFound")
  /\ defaultID' = id
  /\ UNCHANGED <<clusters, heap, mu, store, dbUp, clock, phase, env,
                 pc, loc, probe, restarts, hc>>

NotFoundReturn(op, id) ==
  /\ last' = Done(op, id, "NotFound")
  /\ UNCHANGED <<clusters, heap, defaultID, mu, store, dbUp, clock, phase, env,
                 pc, loc, probe, restarts, hc>>

(* The protection check left out. *)
IsProtectedNever(clusterID) == FALSE

IsProtected(clusterID) == clusterID = InClusterID

(* --------------------------- RemoveCluster ---------------------------- *)
(* The whole call runs under the write lock.  The new default is the      *)
(* first record of the map iteration: any remaining record.               *)
RemoveCluster(p, clusterID) ==
  /\ phase = "running" /\ pc[p] = "idle"
  /\ MuFree
  /\ IF clusterID \notin DOMAIN clusters
     THEN NotFoundReturn("RemoveCluster", clusterID)
     ELSE IF IsProtected(clusterID)
     THEN /\ last' = Done("RemoveCluster", clusterID, "ProtectedResource")
          /\ UNCHANGED <<clusters, heap, defaultID, mu, store, dbUp, clock, phase,
                         env, pc, loc, probe, restarts, hc>>
     ELSE LET cl == Drop(clusters, clusterID)
              deleted == RepoDelete(store, clusterID, dbUp)
          IN /\ clusters' = cl
             /\ IF defaultID = clusterID /\ DOMAIN cl # {}
                THEN \E id \in DOMAIN cl :
                       LET info == [heap[cl[id]] EXCEPT !.IsDefault = TRUE]
                       IN /\ defaultID' = id
                          /\ heap' = Live([heap EXCEPT ![cl[id]] = info], cl, loc, probe)
                          /\ store' = saveClusterToDB(deleted, info, id = InClusterID, dbUp)
                ELSE /\ defaultID' = IF defaultID = clusterID THEN "" ELSE defaultID
                     /\ heap' = Live(heap, cl, loc, probe)
                     /\ store' = deleted
             /\ last' = Done("RemoveCluster", clusterID, "")
             /\ UNCHANGED <<mu, dbUp, clock, phase, env, pc, loc, probe, restarts, hc>>

(* ------------------------- SetDefaultCluster -------------------------- *)
(* Lock, look the id up; the deferred Unlock runs at the return. *)
SetDefaultLock(p, clusterID) ==
  /\ phase = "running" /\ pc[p] = "idle"
  /\ MuFree
  /\ IF clusterID \notin DOMAIN clusters
     THEN NotFoundReturn("SetDefaultCluster", clusterID)
     ELSE /\ mu' = [mu EXCEPT !.w = p]
          /\ pc' = [pc EXCEPT ![p] = "sd_clear"]
          /\ loc' = [loc EXCEPT ![p] = [NoLoc EXCEPT !.id = clusterID,
                                                     !.addr = clusters[clusterID]]]
          /\ last' = None
          /\ UNCHANGED <<clusters, heap, defaultID, store, dbUp, clock, phase, env,
                         probe, restarts, hc>>

(* The lock given up between the clear and the set. *)
SetDefaultHoldReleased(p) == [mu EXCEPT !.w = 0]

(* What the lock is left as between the clear and the set: still held. *)
SetDefaultHold(p) == mu

(* oldDefault.IsDefault = false, and its save *)
SetDefaultClear(p) ==
  /\ phase = "running" /\ pc[p] = "sd_clear"
  /\ IF defaultID # "" /\ defaultID \in DOMAIN clusters
     THEN LET a == clusters[defaultID]
              info == [heap[a] EXCEPT !.IsDefault = FALSE]
          IN /\ heap' = [heap EXCEPT ![a] = info]
             /\ store' = saveClusterToDB(store, info, info.ID = InClusterID, dbUp)
     ELSE UNCHANGED <<heap, store>>
  /\ mu' = SetDefaultHold(p)
  /\ pc' = [pc EXCEPT ![p] = "sd_set"]
  /\ last' = None
  /\ UNCHANGED <<clusters, defaultID, dbUp, clock, phase, env, loc, probe, restarts, hc>>

(* m.defaultID = clusterID; cluster.IsDefault = true; its save; Unlock *)
SetDefaultSet(p) ==
  /\ phase = "running" /\ pc[p] = "sd_set"
  /\ LET a == loc[p].addr
         info == [heap[a] EXCEPT !.IsDefault = TRUE]
     IN /\ defaultID' = loc[p].id
        /\ store' = saveClusterToDB(store, info, info.ID = InClusterID, dbUp)
        /\ loc' = [loc EXCEPT ![p] = NoLoc]
        /\ heap' = Live([heap EXCEPT ![a] = info], clusters, loc', probe)
  /\ mu' = [mu EXCEPT !.w = 0]
  /\ pc' = [pc EXCEPT ![p] = "idle"]
  /\ last' = Done("SetDefaultCluster", loc[p].id, "")
  /\ UNCHANGED <<clusters, dbUp, clock, phase, env, probe, restarts, hc>>

(* ------------------------ UpdateClusterLabels ------------------------- *)
(* UpdateClusterLabels as it would be if a failed save were returned to   *)
(* the caller before the record is written.                               *)
UpdateClusterLabelsIfStored(p, clusterID, labels) ==
  /\ phase = "running" /\ pc[p] = "idle"
  /\ MuFree
  /\ IF clusterID \notin DOMAIN clusters
     THEN NotFoundReturn("UpdateClusterLabels", clusterID)
     ELSE IF ~dbUp
     THEN /\ last' = [Done("UpdateClusterLabels", clusterID, "StoreFailed")
                        EXCEPT !.arg.labels = labels]
          /\ UNCHANGED <<clusters, heap, defaultID, mu, store, dbUp, clock, phase,
                         env, pc, loc, probe, restarts, hc>>
     ELSE LET a == clusters[clusterID]
              info == [heap[a] EXCEPT !.Labels = labels, !.UpdatedAt = clock]
          IN /\ heap' = [heap EXCEPT ![a] = info]
             /\ store' = saveClusterToDB(store, info, info.ID = InClusterID, dbUp)
             /\ last' = [Done("UpdateClusterLabels", clusterID, "")
                           EXCEPT !.arg.labels = labels]
             /\ UNCHANGED <<clusters, defaultID, mu, dbUp, clock, phase, env,
                            pc, loc, probe, restarts, hc>>

UpdateClusterLabels(p, clusterID, labels) ==
  /\ phase = "running" /\ pc[p] = "idle"
  /\ MuFree
  /\ IF clusterID \notin DOMAIN clusters
     THEN NotFoundReturn("UpdateClusterLabels", clusterID)
     ELSE LET a == clusters[clusterID]
              info == [heap[a] EXCEPT !.Labels = labels, !.UpdatedAt = clock]
          IN /\ heap' = [heap EXCEPT ![a] = info]
             /\ store' = saveClusterToDB(store, info, info.ID = InClusterID, dbUp)
             /\ last' = [Done("UpdateClusterLabels", clusterID, "")
                           EXCEPT !.arg.labels = labels]
             /\ UNCHANGED <<clusters, defaultID, mu, dbUp, clock, phase, env,
                            pc, loc, probe, restarts, hc>>

(* ---------------------- UpdateClusterPrometheus ----------------------- *)
(* The URL, user, password and enabled flag travel together: one value.   *)
(* Updates reports an error only when the database does not answer.       *)
UpdateClusterPrometheus(p, clusterID, prom) ==
  /\ phase = "running" /\ pc[p] = "idle"
  /\ MuFree
  /\ IF clusterID \notin DOMAIN clusters
     THEN NotFoundReturn("UpdateClusterPrometheus", clusterID)
     ELSE LET a == clusters[clusterID]
          IN /\ heap' = [heap EXCEPT ![a].Prometheus = prom, ![a].UpdatedAt = clock]
             /\ store' = RepoUpdatePrometheusConfig(store, clusterID, prom, dbUp)
             /\ last' = [Done("UpdateClusterPrometheus", clusterID,
                              IF dbUp THEN "" ELSE "PersistenceFailed")
                           EXCEPT !.arg.prom = prom]
             /\ UNCHANGED <<clusters, defaultID, mu, dbUp, clock, phase, env,
                            pc, loc, probe, restarts, hc>>

(* ------------------------------ readers ------------------------------- *)
(* Whether some SetDefaultCluster has cleared the old flag and not yet    *)
(* set the new one.                                                       *)
Midway == \E q \in Procs : pc[q] = "sd_set"

GetCluster(p, clusterID) ==
  /\ phase = "running" /\ pc[p] = "idle"
  /\ mu.w = 0
  /\ last' = IF clusterID \in DOMAIN clusters
             THEN [Done("GetCluster", clusterID, "")
                     EXCEPT !.ret = clusters[clusterID], !.midway = Midway]
             ELSE Done("GetCluster", clusterID, "NotFound")
  /\ UNCHANGED <<clusters, heap, defaultID, mu, store, dbUp, clock, phase, env,
                 pc, loc, probe, restarts, hc>>

(* m.clusters[m.defaultID] is the nil pointer when the id is not a key. *)
GetDefaultCluster(p) ==
  /\ phase = "running" /\ pc[p] = "idle"
  /\ mu.w = 0
  /\ last' = IF defaultID = ""
             THEN Done("GetDefaultCluster", "", "NoDefaultConfigured")
             ELSE [Done("GetDefaultCluster", defaultID, "")
                     EXCEPT !.ret = IF defaultID \in DOMAIN clusters
                                    THEN clusters[defaultID] ELSE NoObj,
                            !.midway = Midway]
  /\ UNCHANGED <<clusters, heap, defaultID, mu, store, dbUp, clock, phase, env,
                 pc, loc, probe, restarts, hc>>

(* ListClusters: RLock, then the copy of the pointers and RUnlock. *)
ListClustersLock(p) ==
  /\ phase = "running" /\ pc[p] = "idle"
  /\ mu.w = 0
  /\ mu' = [mu EXCEPT !.r = @ \cup {p}]
  /\ pc' = [pc EXCEPT ![p] = "ls_held"]
  /\ last' = None
  /\ UNCHANGED <<clusters, heap, defaultID, store, dbUp, clock, phase, env,
                 loc, probe, restarts, hc>>

ListClustersRead(p) ==
  /\ phase = "running" /\ pc[p] = "ls_held"
  /\ mu' = [mu EXCEPT !.r = @ \ {p}]
  /\ pc' = [pc EXCEPT ![p] = "idle"]
  /\ last' = [Done("ListClusters", "", "")
                EXCEPT !.list = Range(clusters), !.midway = Midway]
  /\ UNCHANGED <<clusters, heap, defaultID, store, dbUp, clock, phase, env,
                 loc, probe, restarts, hc>>

(* The caller of a read keeps the pointer it was handed and reads the     *)
(* record's fields through it afterwards, outside the lock.               *)
KeepReturned(p) ==
  /\ phase = "running" /\ pc[p] = "idle"
  /\ last.op \in {"GetCluster", "GetDefaultCluster", "ListClusters"}
  /\ last.err = ""
  /\ \E a \in (IF last.op = "ListClusters" THEN last.list ELSE {last.ret})
                 \cap DOMAIN heap :
       loc' = [loc EXCEPT ![p] = [NoLoc EXCEPT !.id = a.id, !.addr = a]]
  /\ pc' = [pc EXCEPT ![p] = "holding"]
  /\ last' = None
  /\ UNCHANGED <<clusters, heap, defaultID, mu, store, dbUp, clock, phase, env,
                 probe, restarts, hc>>

(* The caller is done with the record. *)
DropReturned(p) ==
  /\ phase = "running" /\ pc[p] = "holding"
  /\ pc' = [pc EXCEPT ![p] = "idle"]
  /\ loc' = [loc EXCEPT ![p] = NoLoc]
  /\ heap' = Live(heap, clusters, loc', probe)
  /\ last' = None
  /\ UNCHANGED <<clusters, defaultID, mu, store, dbUp, clock, phase, env,
                 probe, restarts, hc>>

(* ------------------------ the memory-only Manager --------------------- *)
(* The Manager's fields, as values: its records by id and its default     *)
(* pointer: what ManagerWithDB holds in the same fields.                  *)
ManagerFields ==
  [clusters |-> [id \in DOMAIN clusters |-> heap[clusters[id]]],
   defaultID |-> defaultID]

(* Manager.AddCluster before the lock: the four early returns, else the   *)
(* record it builds.                                                      *)
ManagerAddClusterBuild(name, description, content, labels, now) ==
  IF content.fails # ""
  THEN [err |-> content.fails, info |-> <<>>]
  ELSE [err |-> "",
        info |-> [ID |-> CustomID(now), Name |-> name,
                  Description |-> description, Server |-> content.host,
                  Status |-> ClusterStatusUnknown, Context |-> content.context,
                  Labels |-> labels, IsDefault |-> FALSE, LastCheck |-> 0,
                  UpdatedAt |-> now, Prometheus |-> FALSE, Client |-> TRUE]]

(* Manager.AddCluster under the lock. *)
ManagerAddClusterInsert(m, info) ==
  LET cl == Put(m.clusters, info.ID, info)
  IN IF Cardinality(DOMAIN cl) = 1
     THEN [clusters |-> [cl EXCEPT ![info.ID].IsDefault = TRUE],
           defaultID |-> info.ID]
     ELSE [clusters |-> cl, defaultID |-> m.defaultID]

(* Manager.RemoveCluster: what it may return and leave, one outcome for   *)
(* each record the map iteration may give first.                          *)
ManagerRemoveCluster(m, clusterID) ==
  IF clusterID \notin DOMAIN m.clusters
  THEN {[m |-> m, err |-> "NotFound"]}
  ELSE IF clusterID = "in-cluster"
  THEN {[m |-> m, err |-> "ProtectedResource"]}
  ELSE LET cl == Drop(m.clusters, clusterID)
       IN IF m.defaultID # clusterID
          THEN {[m |-> [clusters |-> cl, defaultID |-> m.defaultID], err |-> ""]}
          ELSE IF DOMAIN cl = {}
          THEN {[m |-> [clusters |-> cl, defaultID |-> ""], err |-> ""]}
          ELSE {[m |-> [clusters |-> [cl EXCEPT ![id].IsDefault = TRUE],
                        defaultID |-> id],
                 err |-> ""] : id \in DOMAIN cl}

(* Manager.SetDefaultCluster *)
ManagerSetDefaultCluster(m, clusterID) ==
  IF clusterID \notin DOMAIN m.clusters
  THEN [m |-> m, err |-> "NotFound"]
  ELSE LET cleared == IF m.defaultID # "" /\ m.defaultID \in DOMAIN m.clusters
                      THEN [m.clusters EXCEPT ![m.defaultID].IsDefault = FALSE]
                      ELSE m.clusters
       IN [m |-> [clusters |-> [cleared EXCEPT ![clusterID].IsDefault = TRUE],
                  defaultID |-> clusterID],
           err |-> ""]

(* Manager.UpdateClusterLabels *)
ManagerUpdateClusterLabels(m, clusterID, labels, now) ==
  IF clusterID \notin DOMAIN m.clusters
  THEN [m |-> m, err |-> "NotFound"]
  ELSE [m |-> [m EXCEPT !.clusters[clusterID].Labels = labels,
                        !.clusters[clusterID].UpdatedAt = now],
        err |-> ""]

(* Manager.GetCluster: the error and the records returned (none or one). *)
ManagerGetCluster(m, clusterID) ==
  IF clusterID \notin DOMAIN m.clusters
  THEN [err |-> "NotFound", ret |-> {}]
  ELSE [err |-> "", ret |-> {m.clusters[clusterID]}]

(* Manager.GetDefaultCluster: no record is returned, without an error,    *)
(* when the default pointer names no record.                              *)
ManagerGetDefaultCluster(m) ==
  IF m.defaultID = ""
  THEN [err |-> "NoDefaultConfigured", ret |-> {}]
  ELSE [err |-> "",
        ret |-> IF m.defaultID \in DOMAIN m.clusters
                THEN {m.clusters[m.defaultID]} ELSE {}]

(* Manager.ListClusters *)
ManagerListClusters(m) == Range(m.clusters)

(* ----------------- the memory-only Manager: discovery ---------------- *)
(* The files of the kubeconfig directory, by what loadKubeconfigFile      *)
(* makes of each: the context it defines ("" for none), the server of     *)
(* its cluster and whether a client can be created for it.                *)
KubeconfigFiles ==
  {[context |-> "", server |-> "", client |-> FALSE]}
    \cup [context : Contexts, server : {"h1", "h2"}, client : BOOLEAN]

(* The directories: any files in any order. *)
KubeconfigDirs ==
  UNION {[1..n -> KubeconfigFiles] : n \in 0..MaxFiles}

(* A new Manager in front of a kubeconfig directory, in a pod or not. *)
InitDiscovery ==
  /\ clusters = <<>>
  /\ heap = <<>>
  /\ defaultID = ""
  /\ mu = [w |-> 0, r |-> {}]
  /\ store = <<>>
  /\ dbUp = TRUE
  /\ clock = 1
  /\ phase = "new"
  /\ env \in [inCluster : BOOLEAN, client : BOOLEAN, files : KubeconfigDirs]
  /\ pc = [p \in Procs |-> "idle"]
  /\ loc = [p \in Procs |-> NoLoc]
  /\ probe = <<>>
  /\ restarts = 0
  /\ hc = NewHealthChecker
  /\ last = None

(* discoverLocalClusters up to the call of discoverKubeconfigClusters:    *)
(* with an in-cluster configuration and a client for it, the record is    *)
(* registered as the default and the directory is not scanned.            *)
discoverLocalClusters ==
  /\ phase = "new"
  /\ IF env.inCluster /\ env.client
     THEN LET a == NewAddr(heap, InClusterID)
              info == [NewClusterInfo(InClusterID, "in-cluster", "h0", "",
                                      NilLabels, clock)
                         EXCEPT !.IsDefault = TRUE]
          IN /\ clusters' = Put(clusters, InClusterID, a)
             /\ heap' = Put(heap, a, info)
             /\ defaultID' = InClusterID
             /\ phase' = "discovered"
     ELSE /\ phase' = "kubeconfig"
          /\ UNCHANGED <<clusters, heap, defaultID>>
  /\ last' = Done("discoverLocalClusters", "", "")
  /\ UNCHANGED <<mu, store, dbUp, clock, env, pc, loc, probe, restarts, hc>>

(* One round of discoverKubeconfigClusters: loadKubeconfigFile of the     *)
(* next file.  IsDefault is computed when the record is built; the record *)
(* takes the place of a record with the same id.                          *)
loadKubeconfigFile ==
  /\ phase = "kubeconfig" /\ env.files # <<>>
  /\ LET file == Head(env.files)
         clusterID == KubeconfigID(file.context)
     IN /\ IF file.context = "" \/ ~file.client
           THEN UNCHANGED <<clusters, heap, defaultID>>
           ELSE LET a == NewAddr(heap, clusterID)
                    info == [NewClusterInfo(clusterID, file.context, file.server,
                                            file.context, NilLabels, clock)
                               EXCEPT !.IsDefault = (defaultID = "")]
                    cl == Put(clusters, clusterID, a)
                IN /\ clusters' = cl
                   /\ heap' = Live(Put(heap, a, info), cl, loc, probe)
                   /\ defaultID' = IF defaultID = "" THEN clusterID ELSE defaultID
        /\ last' = Done("loadKubeconfigFile", clusterID, "")
  /\ env' = [env EXCEPT !.files = Tail(@)]
  /\ UNCHANGED <<mu, store, dbUp, clock, phase, pc, loc, probe, restarts, hc>>

(* discoverKubeconfigClusters returns after the last file. *)
discoverKubeconfigClusters ==
  /\ phase = "kubeconfig" /\ env.files = <<>>
  /\ phase' = "discovered"
  /\ last' = Done("discoverKubeconfigClusters", "", "")
  /\ UNCHANGED <<clusters, heap, defaultID, mu, store, dbUp, clock, env,
                 pc, loc, probe, restarts, hc>>

(* ------------------ HTTP handlers: errors and statuses ---------------- *)
(* err.Error() of what a ManagerWithDB operation returns, as the parts    *)
(* the text is formatted from; <<>> stands for a nil error.  The texts    *)
(* are Chinese and stand here in pinyin.                                  *)
ErrorText(err, clusterID) ==
  CASE err = "" -> <<>>
    [] err = "NotFound" -> <<"jiqun ", clusterID, " bu cunzai">>
    [] err = "ProtectedResource" -> <<"buneng shanchu jiqun nei peizhi">>
    [] OTHER -> <<err>>

(* The same for the memory-only Manager. *)
ManagerErrorText(err, clusterID) ==
  CASE err = "" -> <<>>
    [] err = "NotFound" -> <<"cluster ", clusterID, " not found">>
    [] err = "ProtectedResource" -> <<"cannot remove in-cluster configuration">>
    [] OTHER -> <<err>>

(* The status the RemoveCluster, SetDefaultCluster and UpdateClusterLabels *)
(* handlers answer with: they compare the text of the error.              *)
HandlerStatus(text, clusterID) ==
  IF text = <<>> THEN 200
  ELSE IF text = <<"cluster ", clusterID, " not found">> THEN 404
  ELSE 400

(* ---------------------- HTTP handler: ListClusters -------------------- *)
(* clusters := h.manager.ListClusters(): the pointers of the registry,    *)
(* collected under the read lock, which is released before the return.    *)
HandlerListClusters(p) ==
  /\ phase = "running" /\ pc[p] = "idle"
  /\ mu.w = 0
  /\ loc' = [loc EXCEPT ![p] = [NoLoc EXCEPT !.list = Range(clusters)]]
  /\ pc' = [pc EXCEPT ![p] = "hl_convert"]
  /\ last' = None
  /\ UNCHANGED <<clusters, heap, defaultID, mu, store, dbUp, clock, phase, env,
                 probe, restarts, hc>>

(* One round of the handler's loop: the fields of one listed record are   *)
(* read through its pointer, with no lock, and appended to the response.  *)
HandlerListAppend(p) ==
  /\ phase = "running" /\ pc[p] = "hl_convert"
  /\ \E a \in loc[p].list :
       loc' = [loc EXCEPT ![p].list = @ \ {a},
                          ![p].resp = @ \cup {[id |-> heap[a].ID,
                                               isDefault |-> heap[a].IsDefault]}]
  /\ last' = None
  /\ UNCHANGED <<clusters, heap, defaultID, mu, store, dbUp, clock, phase, env,
                 pc, probe, restarts, hc>>

(* c.JSON(http.StatusOK, ...): the response leaves. *)
HandlerListRespond(p) ==
  /\ phase = "running" /\ pc[p] = "hl_convert"
  /\ loc[p].list = {}
  /\ pc' = [pc EXCEPT ![p] = "idle"]
  /\ loc' = [loc EXCEPT ![p] = NoLoc]
  /\ heap' = Live(heap, clusters, loc', probe)
  /\ last' = [Done("HandlerListClusters", "", "")
                EXCEPT !.outcome = IF Cardinality({r \in loc[p].resp : r.isDefault}) > 1
                                   THEN "defaults" ELSE "ok"]
  /\ UNCHANGED <<clusters, defaultID, mu, store, dbUp, clock, phase, env,
                 probe, restarts, hc>>

(* --------------------------- health checker --------------------------- *)
(* The checker of ManagerWithDB works on an adapter Manager that shares   *)
(* the map but carries a copy of the mutex, so its steps do not wait for  *)
(* m.mu.                                                                  *)
(* The status written to whatever record the map holds under the id, as  *)
(* it would be if the probe looked its record up again.                   *)
updateClusterStatusByID(h, a, status) ==
  LET b == IF a.id \in DOMAIN clusters THEN clusters[a.id] ELSE a
  IN IF h[b].Status # status
     THEN [h EXCEPT ![b].Status = status, ![b].UpdatedAt = clock]
     ELSE h

updateClusterStatus(h, a, status) ==
  IF h[a].Status # status
  THEN [h EXCEPT ![a].Status = status, ![a].UpdatedAt = clock]
  ELSE h

(* Start without the look at the flag. *)
StartUnguarded(s) ==
  /\ phase = "running" /\ hc.pos[s] = "called"
  /\ hc' = [hc EXCEPT !.running = TRUE, !.pos[s] = "first"]
  /\ last' = None
  /\ UNCHANGED <<clusters, heap, defaultID, mu, store, dbUp, clock, phase, env,
                 pc, loc, probe, restarts>>

(* Start up to the release of h.mu: a call that finds the flag set        *)
(* returns, the other sets it and goes on to its loop.                    *)
Start(s) ==
  /\ phase = "running" /\ hc.pos[s] = "called"
  /\ hc' = IF hc.running THEN [hc EXCEPT !.pos[s] = "returned"]
           ELSE [hc EXCEPT !.running = TRUE, !.pos[s] = "first"]
  /\ last' = None
  /\ UNCHANGED <<clusters, heap, defaultID, mu, store, dbUp, clock, phase, env,
                 pc, loc, probe, restarts>>

(* Someone besides Initialize calls Start. *)
StartCall(s) ==
  /\ phase = "running" /\ hc.pos[s] = "none"
  /\ hc' = [hc EXCEPT !.pos[s] = "called"]
  /\ last' = None
  /\ UNCHANGED <<clusters, heap, defaultID, mu, store, dbUp, clock, phase, env,
                 pc, loc, probe, restarts>>

(* Stop without the look at the flag. *)
StopUnguarded ==
  /\ phase = "running"
  /\ IF hc.closed
     THEN /\ hc' = [hc EXCEPT !.stopped = TRUE, !.running = FALSE]
          /\ last' = Done("Stop", "", "Panic")
          /\ phase' = "crashed"
     ELSE /\ hc' = [hc EXCEPT !.stopped = TRUE, !.running = FALSE,
                              !.closed = TRUE]
          /\ last' = Done("Stop", "", "")
          /\ UNCHANGED phase
  /\ UNCHANGED <<clusters, heap, defaultID, mu, store, dbUp, clock, env,
                 pc, loc, probe, restarts>>

(* Stop, under h.mu.  Closing stopCh a second time panics. *)
Stop ==
  /\ phase = "running"
  /\ IF ~hc.running
     THEN /\ hc' = [hc EXCEPT !.stopped = TRUE]
          /\ last' = Done("Stop", "", "")
          /\ UNCHANGED phase
     ELSE IF hc.closed
     THEN /\ hc' = [hc EXCEPT !.stopped = TRUE, !.running = FALSE]
          /\ last' = Done("Stop", "", "Panic")
          /\ phase' = "crashed"
     ELSE /\ hc' = [hc EXCEPT !.stopped = TRUE, !.running = FALSE,
                              !.closed = TRUE]
          /\ last' = Done("Stop", "", "")
          /\ UNCHANGED phase
  /\ UNCHANGED <<clusters, heap, defaultID, mu, store, dbUp, clock, env,
                 pc, loc, probe, restarts>>

(* The loop's case <-h.stopCh: taken only once the channel is closed. *)
StartStopped(s) ==
  /\ phase = "running" /\ hc.pos[s] = "select"
  /\ hc.closed
  /\ hc' = [hc EXCEPT !.pos[s] = "exited"]
  /\ last' = None
  /\ UNCHANGED <<clusters, heap, defaultID, mu, store, dbUp, clock, phase, env,
                 pc, loc, probe, restarts>>

(* The health checker's manager is the adapter NewManagerWithDB builds:   *)
(* it shares the record map, and its mu is a copy of m.mu, a lock of its  *)
(* own.  Its readers are the Start calls that are listing; its writers,   *)
(* the probes, hold it within one step.                                   *)
AdapterReaders == {s \in Starts : hc.pos[s] = "listing"}

(* One cycle starts, right after Start or on a tick (which may be ready   *)
(* when stopCh is too): h.manager.ListClusters() takes the adapter's read *)
(* lock.                                                                  *)
checkAllClustersList(s) ==
  /\ phase = "running" /\ hc.pos[s] \in {"first", "select"}
  /\ hc' = [hc EXCEPT !.pos[s] = "listing"]
  /\ last' = Done("checkAllClusters", "", "")
  /\ UNCHANGED <<clusters, heap, defaultID, mu, store, dbUp, clock, phase, env,
                 pc, loc, probe, restarts>>

(* The pointers are copied, the read lock released, and a probe goroutine *)
(* launched per record listed.                                            *)
checkAllClusters(s) ==
  /\ phase = "running" /\ hc.pos[s] = "listing"
  /\ hc' = [hc EXCEPT !.pos[s] = "cycle"]
  /\ probe' = [k \in DOMAIN probe \cup {[s |-> s, a |-> a] : a \in Range(clusters)}
                 |-> IF k \in DOMAIN probe THEN probe[k]
                     ELSE [st |-> "start", at |-> clock]]
  /\ last' = None
  /\ UNCHANGED <<clusters, heap, defaultID, mu, store, dbUp, clock, phase, env,
                 pc, loc, restarts>>

(* The cycle as it would end without wg.Wait(). *)
checkAllClustersNoWait(s) ==
  /\ phase = "running" /\ hc.pos[s] = "cycle"
  /\ hc' = [hc EXCEPT !.pos[s] = "select"]
  /\ last' = None
  /\ UNCHANGED <<clusters, heap, defaultID, mu, store, dbUp, clock, phase, env,
                 pc, loc, probe, restarts>>

(* wg.Wait() returns: every probe of the cycle has finished. *)
checkAllClustersWait(s) ==
  /\ phase = "running" /\ hc.pos[s] = "cycle"
  /\ \A k \in DOMAIN probe : k.s # s
  /\ hc' = [hc EXCEPT !.pos[s] = "select"]
  /\ last' = None
  /\ UNCHANGED <<clusters, heap, defaultID, mu, store, dbUp, clock, phase, env,
                 pc, loc, probe, restarts>>

(* What a finished probe reports: the record, the outcome, the time the  *)
(* cycle began.                                                           *)
Probed(k, outcome) ==
  [Done("checkClusterHealth", k.a.id, "")
     EXCEPT !.ret = k.a, !.outcome = outcome, !.since = probe[k].at]

(* checkClusterHealth up to the version call.  ServerVersion() takes no   *)
(* context: the 10 s of ctx bound the node listing only, and against an   *)
(* endpoint that never answers the version call stays in flight           *)
(* ("version_wait"), while the node listing returns an error.             *)
checkClusterHealthVersion(k) ==
  /\ phase = "running" /\ k \in DOMAIN probe /\ probe[k].st = "start"
  /\ AdapterReaders = {}
  /\ IF ~heap[k.a].Client
     THEN /\ probe' = Drop(probe, k)
          /\ heap' = Live(updateClusterStatus(heap, k.a, ClusterStatusUnreachable),
                          clusters, loc, probe')
          /\ last' = Probed(k, "NoClient")
     ELSE \/ \E versionErr \in BOOLEAN :
               /\ probe' = [probe EXCEPT ![k].st = IF versionErr THEN "version_err"
                                                   ELSE "version_ok"]
               /\ heap' = [heap EXCEPT ![k.a].LastCheck = clock]
               /\ last' = None
          \/ /\ probe' = [probe EXCEPT ![k].st = "version_wait"]
             /\ last' = None
             /\ UNCHANGED heap
  /\ UNCHANGED <<clusters, defaultID, mu, store, dbUp, clock, phase, env,
                 pc, loc, restarts, hc>>

(* The status after a version call that worked: the node listing and the  *)
(* search for a Ready node.                                               *)
nodesReadyIgnored(listErr, hasReadyNode) ==
  IF listErr THEN ClusterStatusUnhealthy ELSE ClusterStatusHealthy

nodesStatus(listErr, hasReadyNode) ==
  IF listErr THEN ClusterStatusUnhealthy
  ELSE IF hasReadyNode THEN ClusterStatusHealthy
  ELSE ClusterStatusUnhealthy

(* The rest of checkClusterHealth. *)
checkClusterHealthNodes(k) ==
  /\ phase = "running" /\ k \in DOMAIN probe
  /\ probe[k].st \in {"version_err", "version_ok"}
  /\ AdapterReaders = {}
  /\ probe' = Drop(probe, k)
  /\ \E listErr \in BOOLEAN, hasReadyNode \in BOOLEAN :
       LET status == IF probe[k].st = "version_err" THEN ClusterStatusUnreachable
                     ELSE nodesStatus(listErr, hasReadyNode)
           outcome == IF probe[k].st = "version_err" THEN "VersionError"
                      ELSE IF listErr THEN "ListError"
                      ELSE IF hasReadyNode THEN "ReadyNode"
                      ELSE "NoReadyNode"
       IN /\ heap' = Live(updateClusterStatus(heap, k.a, status), clusters, loc,
                          probe')
          /\ last' = Probed(k, outcome)
  /\ UNCHANGED <<clusters, defaultID, mu, store, dbUp, clock, phase, env,
                 pc, loc, restarts, hc>>

(* ----------------------------- environment ---------------------------- *)
Tick ==
  /\ clock < MaxClock
  /\ clock' = clock + 1
  /\ last' = None
  /\ UNCHANGED <<clusters, heap, defaultID, mu, store, dbUp, phase, env,
                 pc, loc, probe, restarts, hc>>

DatabaseFlip ==
  /\ dbUp' = ~dbUp
  /\ last' = None
  /\ UNCHANGED <<clusters, heap, defaultID, mu, store, clock, phase, env,
                 pc, loc, probe, restarts, hc>>

(* The process ends and a fresh ManagerWithDB is built on the same store. *)
Restart ==
  /\ phase \in {"running", "crashed"}
  /\ restarts < MaxRestarts
  /\ restarts' = restarts + 1
  /\ clusters' = <<>>
  /\ heap' = <<>>
  /\ defaultID' = ""
  /\ mu' = [w |-> 0, r |-> {}]
  /\ phase' = "new"
  /\ pc' = [p \in Procs |-> "idle"]
  /\ loc' = [p \in Procs |-> NoLoc]
  /\ probe' = <<>>
  /\ hc' = NewHealthChecker
  /\ last' = Done("Restart", "", "")
  /\ UNCHANGED <<store, dbUp, clock, env>>

(* --------------------------- specification ---------------------------- *)
IDs == {InClusterID} \cup {KubeconfigID(c) : c \in Contexts}
         \cup {CustomID(t) : t \in 1..MaxClock}
Addr == [id : IDs, gen : 0..MaxGen]

(* The steps, by who takes them.  P: the callers; L: the labels they pass. *)
InitializeStep ==
  \/ loadClustersFromDB
  \/ registerInCluster
  \/ scanClustersInDir
  \/ ensureDefaultCluster
  \/ InitializeReturn

AddStep(P, L) ==
  \/ \E p \in P, content \in KubeconfigContents : AddClusterFail(p, content)
  \/ \E p \in P, name \in Names, description \in Descriptions,
        content \in KubeconfigContents, labels \in L :
       AddClusterBuild(p, name, description, content, labels)
  \/ \E p \in P : AddClusterInsert(p)
  \/ \E p \in P : AddClusterSave(p)

RemoveStep(P) == \E p \in P, id \in IDs : RemoveCluster(p, id)

SetDefaultStep(P) ==
  \/ \E p \in P, id \in IDs : SetDefaultLock(p, id)
  \/ \E p \in P : SetDefaultClear(p)
  \/ \E p \in P : SetDefaultSet(p)

UpdateStep(P, L) ==
  \/ \E p \in P, id \in IDs, labels \in L : UpdateClusterLabels(p, id, labels)
  \/ \E p \in P, id \in IDs, prom \in BOOLEAN : UpdateClusterPrometheus(p, id, prom)

GetDefaultStep(P) == \E p \in P : GetDefaultCluster(p)

GetStep(P) == \E p \in P, id \in IDs : GetCluster(p, id)

ListStep(P) ==
  \/ \E p \in P : ListClustersLock(p)
  \/ \E p \in P : ListClustersRead(p)

HandlerListStep(P) ==
  \/ \E p \in P : HandlerListClusters(p)
  \/ \E p \in P : HandlerListAppend(p)
  \/ \E p \in P : HandlerListRespond(p)

KeepStep(P) ==
  \/ \E p \in P : KeepReturned(p)
  \/ \E p \in P : DropReturned(p)

(* The loop of the Start call with number s and the probes it launches. *)
LoopStep(S) ==
  \/ \E s \in S : Start(s)
  \/ \E s \in S : checkAllClustersList(s)
  \/ \E s \in S : checkAllClusters(s)
  \/ \E s \in S : checkAllClustersWait(s)
  \/ \E s \in S, a \in Addr : checkClusterHealthVersion([s |-> s, a |-> a])
  \/ \E s \in S, a \in Addr : checkClusterHealthNodes([s |-> s, a |-> a])

(* The health checker as Initialize starts it and nobody stops it. *)
HealthStep == LoopStep({1})

(* Start called once more, and Stop. *)
LifecycleStep ==
  \/ \E s \in Starts \ {1} : StartCall(s)
  \/ Stop
  \/ \E s \in Starts : StartStopped(s)

(* The whole program: every caller, the checker and the environment. *)
Next ==
  \/ InitializeStep
  \/ AddStep(Procs, LabelValues)
  \/ RemoveStep(Procs)
  \/ SetDefaultStep(Procs)
  \/ UpdateStep(Procs, LabelValues)
  \/ GetDefaultStep(Procs)
  \/ GetStep(Procs)
  \/ ListStep(Procs)
  \/ KeepStep(Procs)
  \/ LoopStep(Starts)
  \/ LifecycleStep
  \/ Tick
  \/ DatabaseFlip
  \/ Restart

Spec == Init /\ [][Next]_vars

(* One caller at a time, a database that answers, no probe in flight. *)
NextRegistry ==
  \/ InitializeStep
  \/ AddStep({1}, {ProdLabels})
  \/ RemoveStep({1})
  \/ SetDefaultStep({1})
  \/ GetDefaultStep({1})
  \/ Tick

SpecRegistry == Init /\ [][NextRegistry]_vars

(* One caller at a time, with the label and Prometheus updates. *)
NextUpdate ==
  \/ InitializeStep
  \/ AddStep({1}, {ProdLabels})
  \/ RemoveStep({1})
  \/ SetDefaultStep({1})
  \/ UpdateStep({1}, {NilLabels})

SpecUpdate == Init /\ [][NextUpdate]_vars

(* One caller at a time and the health checker's probes, in a process     *)
(* outside a cluster with one kubeconfig context.                         *)
InitKubeconfig == Init /\ env = [inCluster |-> FALSE, contexts |-> Contexts]

NextHealth ==
  \/ InitializeStep
  \/ AddStep({1}, {NilLabels})
  \/ RemoveStep({1})
  \/ SetDefaultStep({1})
  \/ HealthStep

SpecHealth == InitKubeconfig /\ [][NextHealth]_vars

(* One caller at a time, a database that may fail, and restarts. *)
NextStore ==
  \/ InitializeStep
  \/ AddStep({1}, {NilLabels})
  \/ RemoveStep({1})
  \/ SetDefaultStep({1})
  \/ DatabaseFlip
  \/ Restart

SpecStore == Init /\ [][NextStore]_vars

(* Concurrent callers: writers and readers of the registry. *)
NextConcurrent ==
  \/ InitializeStep
  \/ AddStep(Procs, {NilLabels})
  \/ RemoveStep(Procs)
  \/ SetDefaultStep(Procs)
  \/ GetDefaultStep(Procs)
  \/ ListStep(Procs)

SpecConcurrent == Init /\ [][NextConcurrent]_vars

(* The operations both managers have, from one caller, while the         *)
(* database comes and goes.                                               *)
NextEquivalence ==
  \/ InitializeStep
  \/ AddStep({1}, {ProdLabels})
  \/ RemoveStep({1})
  \/ SetDefaultStep({1})
  \/ \E id \in IDs, labels \in {NilLabels} : UpdateClusterLabels(1, id, labels)
  \/ GetStep({1})
  \/ GetDefaultStep({1})
  \/ ListStep({1})
  \/ DatabaseFlip

SpecEquivalence == Init /\ [][NextEquivalence]_vars

(* The discovery of the memory-only Manager. *)
NextDiscovery ==
  \/ discoverLocalClusters
  \/ loadKubeconfigFile
  \/ discoverKubeconfigClusters

SpecDiscovery == InitDiscovery /\ [][NextDiscovery]_vars

(* The HTTP ListClusters handler of one request while another request    *)
(* sets the default.                                                      *)
NextHandler ==
  \/ InitializeStep
  \/ HandlerListStep({1})
  \/ SetDefaultStep({2})

SpecHandler == Init /\ [][NextHandler]_vars

(* A reader that keeps what it was handed while another caller and the    *)
(* health checker write, in a process started from a kubeconfig directory *)
(* with one context.                                                      *)
NextSnapshot ==
  \/ InitializeStep
  \/ GetStep({1})
  \/ GetDefaultStep({1})
  \/ ListStep({1})
  \/ KeepStep({1})
  \/ UpdateStep({2}, {ProdLabels})
  \/ SetDefaultStep({2})
  \/ HealthStep

SpecSnapshot == InitKubeconfig /\ [][NextSnapshot]_vars

(* One caller at a time with every mutating operation, a database that   *)
(* may fail, in a process outside a cluster with one kubeconfig context.  *)
NextPersist ==
  \/ InitializeStep
  \/ AddStep({1}, {ProdLabels})
  \/ RemoveStep({1})
  \/ SetDefaultStep({1})
  \/ UpdateStep({1}, {ProdLabels})
  \/ DatabaseFlip

SpecPersist == InitKubeconfig /\ [][NextPersist]_vars

(* Label and Prometheus updates of the discovered record, read back after *)
(* a restart.                                                             *)
NextLabels ==
  \/ InitializeStep
  \/ UpdateStep({1}, LabelValues)
  \/ GetStep({1})
  \/ Restart
  \/ Tick

SpecLabels == InitKubeconfig /\ [][NextLabels]_vars

(* Concurrent AddCluster calls with different labels, and GetCluster. *)
NextRoundTrip ==
  \/ InitializeStep
  \/ AddStep(Procs, LabelValues)
  \/ GetStep({1})

SpecRoundTrip == Init /\ [][NextRoundTrip]_vars

(* The health checker over the records discovered at startup and the     *)
(* records loaded from the store after a restart, some without a client.  *)
NextProbe ==
  \/ InitializeStep
  \/ HealthStep
  \/ Restart
  \/ Tick

SpecProbe == Init /\ [][NextProbe]_vars

(* The health checker's life: the Start that Initialize launches, one     *)
(* more Start call, Stop calls, and the probe cycles.                     *)
NextLifecycle ==
  \/ InitializeStep
  \/ LoopStep(Starts)
  \/ LifecycleStep

SpecLifecycle == Init /\ [][NextLifecycle]_vars

(* Initialize under stage failures (database down, client not built,      *)
(* files skipped), then AddCluster and GetDefaultCluster, over restarts.  *)
NextInitialize ==
  \/ InitializeStep
  \/ AddStep(Procs, {ProdLabels})
  \/ GetDefaultStep({1})
  \/ DatabaseFlip
  \/ Restart
  \/ Tick

SpecInitialize == Init /\ [][NextInitialize]_vars

(* The scan and its repetition, over stores that earlier runs filled. *)
NextScan ==
  \/ InitializeStep
  \/ scanClustersInDirAgain
  \/ DatabaseFlip
  \/ Restart

SpecScan == Init /\ [][NextScan]_vars

(* The health checker next to a caller that adds and removes records. *)
NextMonitor ==
  \/ InitializeStep
  \/ HealthStep
  \/ AddStep({1}, {NilLabels})
  \/ RemoveStep({1})

SpecMonitor == InitKubeconfig /\ [][NextMonitor]_vars

(* ------------------------------ claims -------------------------------- *)
Registry == <<clusters, heap, defaultID, store>>
AddInserts(p) == pc[p] = "add_insert" /\ pc'[p] = "add_save"

(* C1: once Initialize has completed, whenever no writer is inside its    *)
(* critical section, no record is flagged default when the registry is    *)
(* empty and exactly one is when it is not.                               *)
C1_OneDefaultWhenNonEmpty ==
  (phase = "running" /\ mu.w = 0) =>
    Cardinality(DefaultFlagged) = IF DOMAIN clusters = {} THEN 0 ELSE 1

(* C2: the record a successful AddCluster inserts is flagged default iff  *)
(* the registry was empty just before; when it was not empty, the default *)
(* pointer and the existing default record stay as they were.             *)
C2_AddDefaultIffEmpty ==
  [][\A p \in Procs : AddInserts(p) =>
       /\ heap'[loc[p].addr].IsDefault <=> (DOMAIN clusters = {})
       /\ DOMAIN clusters # {} =>
            /\ defaultID' = defaultID
            /\ defaultID \in DOMAIN clusters =>
                 /\ defaultID \in DOMAIN clusters'
                 /\ clusters'[defaultID] = clusters[defaultID]
                 /\ heap'[clusters[defaultID]] = heap[clusters[defaultID]]]_vars

(* C3: the id a successful AddCluster assigns is the id of no record      *)
(* already in the registry: the insertion adds one record and leaves      *)
(* every existing record in place.                                        *)
C3_AddAssignsFreshId ==
  [][\A p \in Procs : AddInserts(p) =>
       /\ loc[p].id \notin DOMAIN clusters
       /\ Cardinality(DOMAIN clusters') = Cardinality(DOMAIN clusters) + 1
       /\ \A i \in DOMAIN clusters :
            i \in DOMAIN clusters' /\ clusters'[i] = clusters[i]]_vars

(* C4: an AddCluster that returns an error leaves the record map, the     *)
(* records, the default pointer and the store as they were.               *)
C4_FailedAddChangesNothing ==
  [][(last'.op = "AddCluster" /\ last'.err # "") =>
       /\ last'.err \in {"InvalidConfig", "NoContext", "ConfigFailed", "ClientFailed"}
       /\ UNCHANGED Registry]_vars

C4_Witness ==
  /\ last.op = "AddCluster" /\ last.err = "ClientFailed"
  /\ DOMAIN clusters # {} /\ defaultID # ""

(* C5: with exactly the records A (default) and B, both persisted, and a  *)
(* database that answers, RemoveCluster(A) leaves B the default in memory *)
(* and B's row with is_default = true.                                    *)
C5_RemoveDefaultPersistsNewDefault ==
  [][(/\ last'.op = "RemoveCluster" /\ last'.err = ""
      /\ defaultID = last'.id
      /\ Cardinality(DOMAIN clusters) = 2
      /\ DOMAIN clusters \subseteq Persisted(store)
      /\ dbUp) =>
       \E B \in DOMAIN clusters \ {last'.id} :
         /\ defaultID' = B
         /\ heap'[clusters'[B]].IsDefault
         /\ B \in Persisted(store') /\ store'[B].IsDefault]_vars

(* C6: RemoveCluster("in-cluster") on a registry that holds the record    *)
(* returns the protected-resource error and changes nothing; the record,  *)
(* once in the registry, stays in it for the life of the process.         *)
C6_InClusterIsProtected ==
  [][/\ (last'.op = "RemoveCluster" /\ last'.id = InClusterID
           /\ InClusterID \in DOMAIN clusters) =>
          (last'.err = "ProtectedResource" /\ UNCHANGED Registry)
     /\ (InClusterID \in DOMAIN clusters /\ last'.op # "Restart") =>
          (/\ InClusterID \in DOMAIN clusters'
           /\ clusters'[InClusterID] = clusters[InClusterID])]_vars

C6_Witness ==
  /\ last.op = "RemoveCluster" /\ last.id = InClusterID
  /\ last.err = "ProtectedResource"
  /\ Cardinality(DOMAIN clusters) > 1

(* C7: RemoveCluster, SetDefaultCluster, UpdateClusterLabels and          *)
(* UpdateClusterPrometheus with an id that is not in the registry return  *)
(* not-found and change nothing.                                          *)
ByIdOps == {"RemoveCluster", "SetDefaultCluster", "UpdateClusterLabels",
            "UpdateClusterPrometheus"}

C7_NotFoundChangesNothing ==
  [][(last'.op \in ByIdOps /\ last'.id \notin DOMAIN clusters) =>
       (last'.err = "NotFound" /\ UNCHANGED Registry)]_vars

C7_Witness ==
  /\ last.op = "UpdateClusterPrometheus" /\ last.err = "NotFound"
  /\ DOMAIN clusters # {} /\ defaultID # ""
  /\ last.id \in DOMAIN store

(* C8: from the clear of the old default's flag to the set of the new     *)
(* one, SetDefaultCluster holds the write lock: no other caller holds the *)
(* lock in any mode, no reader's observation is taken in between, the new *)
(* flag is set only after the old default's flag has been cleared, and    *)
(* whenever the write lock is free at most one record is flagged default. *)
SetDefaultInside(p) == pc[p] \in {"sd_clear", "sd_set"}

C8_SetDefaultIsOneCriticalSection ==
  [][/\ \A p \in Procs : SetDefaultInside(p)' =>
          /\ mu'.w = p /\ mu'.r = {}
          /\ \A q \in Procs \ {p} : pc'[q] \notin {"sd_clear", "sd_set", "ls_held"}
     /\ last'.op \in {"GetCluster", "GetDefaultCluster", "ListClusters"} =>
          ~last'.midway
     /\ \A p \in Procs : (pc[p] = "sd_set" /\ pc'[p] = "idle") =>
          /\ defaultID \in DOMAIN clusters => ~heap[clusters[defaultID]].IsDefault
          /\ heap'[clusters'[defaultID']].IsDefault
     /\ mu'.w = 0 => Cardinality(DefaultFlagged') <= 1]_vars

C8_Witness ==
  \E p, q \in Procs :
    /\ pc[p] = "sd_set" /\ pc[q] = "add_insert"
    /\ Cardinality(DOMAIN clusters) > 1
    /\ DefaultFlagged = {}

(* C9: after SetDefaultCluster(B) on a registry whose old default A is    *)
(* persisted as the default and whose B is persisted, with a database     *)
(* that answers, the store holds is_default = false for A and true for B, *)
(* and B is the only default a load of the store finds.                   *)
C9_SetDefaultPersistsBothFlags ==
  [][\A p \in Procs :
       (/\ pc[p] = "sd_set" /\ pc'[p] = "idle"
        /\ defaultID # loc[p].id
        /\ {defaultID, loc[p].id} \subseteq Persisted(store)
        /\ store[defaultID].IsDefault
        /\ dbUp) =>
         /\ ~store'[defaultID].IsDefault
         /\ store'[loc[p].id].IsDefault
         /\ {i \in RepoGetAll(store') : store'[i].IsDefault} = {loc[p].id}]_vars

(* C10: GetDefaultCluster returns the no-default error exactly when the   *)
(* default pointer is empty, and otherwise a record that is in the        *)
(* registry and is flagged default.                                       *)
C10_GetDefaultReturnsTheDefault ==
  last.op = "GetDefaultCluster" =>
    /\ (last.err = "NoDefaultConfigured") <=> (defaultID = "")
    /\ last.err \in {"", "NoDefaultConfigured"}
    /\ last.err = "" =>
         /\ last.ret # NoObj
         /\ last.ret \in Range(clusters)
         /\ heap[last.ret].IsDefault

(* C11: the field values seen through a record that GetCluster,           *)
(* GetDefaultCluster or ListClusters returned stay what they were while   *)
(* the caller keeps it, whatever is applied to the registry afterwards.   *)
C11_ReturnedValueIsASnapshot ==
  [][\A p \in Procs :
       (pc[p] = "holding" /\ pc'[p] = "holding") =>
         heap'[loc[p].addr] = heap[loc[p].addr]]_vars

(* C12: after a successful UpdateClusterLabels(id, L) on a record whose   *)
(* row is in the store, with a database that answers, the row of id       *)
(* carries L: a load of the store yields a record whose labels are L.     *)
C12_UpdateLabelsReachesTheStore ==
  [][(/\ last'.op = "UpdateClusterLabels" /\ last'.err = ""
      /\ last'.id \in Persisted(store)
      /\ dbUp) =>
       /\ last'.id \in RepoGetAll(store')
       /\ modelToClusterInfo(store'[last'.id], TRUE).Labels.m
            = last'.arg.labels.m]_vars

(* C13: when the persistence call of a mutating operation fails, the      *)
(* operation still reports success and its in-memory mutation is applied. *)
MutatingOps == {"AddCluster", "RemoveCluster", "SetDefaultCluster",
                "UpdateClusterLabels", "UpdateClusterPrometheus"}
EarlyErrors == {"InvalidConfig", "NoContext", "ConfigFailed", "ClientFailed",
                "NotFound", "ProtectedResource"}

C13_PersistenceFailureIsOnlyLogged ==
  [][(~dbUp /\ last'.op \in MutatingOps /\ last'.err \notin EarlyErrors) =>
       /\ last'.err = ""
       /\ last'.op = "AddCluster" =>
            last'.id \in DOMAIN clusters' /\ clusters'[last'.id] = last'.ret
       /\ last'.op = "RemoveCluster" => last'.id \notin DOMAIN clusters'
       /\ last'.op = "SetDefaultCluster" =>
            defaultID' = last'.id /\ heap'[clusters'[last'.id]].IsDefault
       /\ last'.op = "UpdateClusterLabels" =>
            heap'[clusters'[last'.id]].Labels = last'.arg.labels
       /\ last'.op = "UpdateClusterPrometheus" =>
            heap'[clusters'[last'.id]].Prometheus = last'.arg.prom]_vars

(* C14: a GetCluster(i) that directly follows a successful AddCluster     *)
(* which returned id i succeeds, and the record it returns has the host   *)
(* of the kubeconfig as Server and the name, description and labels that  *)
(* were passed to AddCluster.                                             *)
C14_AddThenGetRoundTrip ==
  [][(/\ last.op = "AddCluster" /\ last.err = ""
      /\ last'.op = "GetCluster" /\ last'.id = last.id) =>
       /\ last'.err = ""
       /\ heap'[last'.ret].Server = last.arg.host
       /\ heap'[last'.ret].Name = last.arg.name
       /\ heap'[last'.ret].Description = last.arg.description
       /\ heap'[last'.ret].Labels.m = last.arg.labels.m]_vars

(* C15: the status a record has when a probe of it finishes depends on    *)
(* the probe's outcome alone: Unreachable without a client or when the    *)
(* version call fails, Healthy when the node list works and has a Ready   *)
(* node, Unhealthy when the node list fails or has no Ready node.         *)
ExpectedStatus(outcome) ==
  IF outcome \in {"NoClient", "VersionError"} THEN ClusterStatusUnreachable
  ELSE IF outcome = "ReadyNode" THEN ClusterStatusHealthy
  ELSE ClusterStatusUnhealthy

C15_StatusFollowsProbeOutcome ==
  [][(last'.op = "checkClusterHealth" /\ last'.ret \in DOMAIN heap') =>
       heap'[last'.ret].Status = ExpectedStatus(last'.outcome)]_vars

C15_Witness ==
  /\ last.op = "checkClusterHealth" /\ last.outcome = "NoReadyNode"
  /\ last.ret \in DOMAIN heap
  /\ heap[last.ret].Status = ClusterStatusUnhealthy
  /\ heap[last.ret].UpdatedAt > 1

(* C16: when a probe of a record finishes, whatever its outcome, the      *)
(* record's LastCheck is no earlier than the start of the probe's cycle.  *)
C16_EveryProbeAdvancesLastCheck ==
  [][(last'.op = "checkClusterHealth" /\ last'.ret \in DOMAIN heap') =>
       heap'[last'.ret].LastCheck >= last'.since]_vars

(* The Start calls whose loop has begun and has not returned. *)
ActiveLoops ==
  {s \in Starts : hc.pos[s] \in {"first", "listing", "cycle", "select"}}

C18_StopIsIdempotent ==
  [][(last'.op = "Stop" /\ (~hc.running \/ last.op = "Stop")) =>
       /\ last'.err = ""
       /\ UNCHANGED <<hc.running, hc.closed, hc.pos, probe, phase, clusters,
                      heap, defaultID, store>>]_vars

C18_Witness ==
  /\ last.op = "Stop" /\ last.err = ""
  /\ hc.closed /\ ~hc.running
  /\ \E s \in Starts : hc.pos[s] = "exited"

(* C19: once Stop has been called, the probe loop of the Start call that  *)
(* Initialize launched exits and starts no further cycle.  The loop can   *)
(* only exit through the closed stop channel, so the claim requires that  *)
(* whenever Stop has been called and that loop is active, the channel is  *)
(* closed.                                                                *)
C19_StopEndsTheLoop ==
  (hc.stopped /\ 1 \in ActiveLoops) => hc.closed

(* The order in which Initialize moves through its stages. *)
StageOrder ==
  {<<"new", "loaded">>, <<"loaded", "incluster">>, <<"incluster", "scanned">>,
   <<"scanned", "elected">>, <<"elected", "running">>, <<"running", "new">>}

(* C20: Initialize goes through its four stages in order and no failure   *)
(* of a stage keeps the next from being attempted; it returns success;    *)
(* with an empty registry GetDefaultCluster reports that no default is    *)
(* configured, an AddCluster that inserts into it makes its record the    *)
(* default, and when a successful AddCluster returns with its record the  *)
(* only one of the registry, that record is the default.                  *)
C20_InitializeIsBestEffort ==
  /\ [][phase' # phase => <<phase, phase'>> \in StageOrder]_vars
  /\ [](/\ phase = "new" => ENABLED loadClustersFromDB
        /\ phase = "loaded" => ENABLED registerInCluster
        /\ phase = "incluster" => ENABLED scanClustersInDir
        /\ phase = "scanned" => ENABLED ensureDefaultCluster
        /\ phase = "elected" => ENABLED InitializeReturn)
  /\ [](last.op = "Initialize" => last.err = "" /\ phase = "running")
  /\ [][(last'.op = "GetDefaultCluster" /\ DOMAIN clusters = {}) =>
          last'.err = "NoDefaultConfigured"]_vars
  /\ [][\A p \in Procs :
          (pc[p] = "add_insert" /\ pc'[p] = "add_save" /\ DOMAIN clusters = {}) =>
            /\ defaultID' = loc[p].id
            /\ heap'[clusters'[defaultID']].IsDefault]_vars
  /\ []((last.op = "AddCluster" /\ last.err = "" /\ DOMAIN clusters = {last.id}) =>
          /\ defaultID = last.id
          /\ heap[clusters[defaultID]].IsDefault)

(* Every stage met a failure, Initialize returned, and the record of a    *)
(* later AddCluster is the default.                                       *)
C20_Witness ==
  /\ env.inCluster /\ env.contexts # {} /\ ~dbUp
  /\ last.op = "AddCluster" /\ last.err = ""
  /\ DOMAIN clusters = {last.id}
  /\ defaultID = last.id
  /\ heap[clusters[last.id]].IsDefault

(* C21: a scan of the kubeconfig directory that follows a scan of the     *)
(* same files adds and replaces no record: the record map, the records    *)
(* and the default pointer stay as the first scan left them.              *)
C21_RescanIsIdempotent ==
  [][(last'.op = "scanClustersInDir" /\ last'.id = "again") =>
       UNCHANGED <<clusters, heap, defaultID>>]_vars

C21_Witness ==
  /\ last.op = "scanClustersInDir" /\ last.id = "again"
  /\ \E c \in env.contexts : ClientBuilt(c)
  /\ defaultID # ""

(* C22: while the health checker holds its read lock for the listing of   *)
(* the records, no AddCluster or RemoveCluster writes the record map.     *)
C22_ListingExcludesMapWriters ==
  [][AdapterReaders # {} => clusters' = clusters]_vars

(* C23: a step of a probe that writes the Status or the LastCheck of its  *)
(* record is taken under the registry's write lock, that is, while no     *)
(* caller of the registry holds m.mu for reading or writing.              *)
C23_ProbeWritesUnderRegistryLock ==
  [][(\E k \in DOMAIN probe :
        /\ k \notin DOMAIN probe' \/ probe'[k] # probe[k]
        /\ k.a \in DOMAIN heap'
        /\ \/ heap'[k.a].Status # heap[k.a].Status
           \/ heap'[k.a].LastCheck # heap[k.a].LastCheck)
     => MuFree]_vars

(* C24: when stage 1 has run, at most one record of the registry has      *)
(* IsDefault set, and it is the record the default pointer names.         *)
C24_LoadKeepsOneDefault ==
  phase = "loaded" =>
    /\ Cardinality(DefaultFlagged) <= 1
    /\ DefaultFlagged \subseteq {defaultID}

(* C25: stage 2 makes the in-cluster record it inserts the default only   *)
(* if the registry held no record before; otherwise the record is         *)
(* inserted with IsDefault unset and the default pointer stays.           *)
C25_InClusterDefaultOnlyIfEmpty ==
  [][(/\ last'.op = "registerInCluster"
      /\ InClusterID \notin DOMAIN clusters
      /\ InClusterID \in DOMAIN clusters') =>
       /\ heap'[clusters'[InClusterID]].IsDefault <=> (DOMAIN clusters = {})
       /\ DOMAIN clusters # {} => defaultID' = defaultID]_vars

(* C26: when stage 4 finds records and no default, it leaves exactly one  *)
(* record flagged, the default pointer on it, and that record's row in    *)
(* the store with is_default set.                                         *)
C26_ElectionReachesMemoryAndStore ==
  [][(/\ last'.op = "ensureDefaultCluster"
      /\ defaultID = "" /\ DOMAIN clusters # {}) =>
       /\ defaultID' \in DOMAIN clusters'
       /\ DefaultFlagged' = {defaultID'}
       /\ defaultID' \in Persisted(store')
       /\ store'[defaultID'].IsDefault]_vars

(* C27: the record stage 4 elects is a function of the registry: from a   *)
(* state with records and no default, stage 4 cannot end with one default *)
(* pointer and also with another.                                         *)
C27_ElectionIsDeterministic ==
  (phase = "scanned" /\ defaultID = "") =>
    \A i, j \in DOMAIN clusters :
      (/\ ENABLED (ensureDefaultCluster /\ defaultID' = i)
       /\ ENABLED (ensureDefaultCluster /\ defaultID' = j)) => i = j

(* The probes of the cycle of Start call s that have not finished. *)
ProbesOf(s) == {k \in DOMAIN probe : k.s = s}

(* C28: a cycle launches one probe for each record it listed and for no   *)
(* other; it starts only when no probe of the cycle before is running,    *)
(* and between two cycles of a loop none of its probes is running.        *)
C28_CyclesDoNotOverlap ==
  /\ [][\A s \in Starts :
          (hc.pos[s] = "listing" /\ hc.pos'[s] = "cycle") =>
            /\ ProbesOf(s) = {}
            /\ ProbesOf(s)' = {[s |-> s, a |-> a] : a \in Range(clusters)}
            /\ \A k \in ProbesOf(s)' : probe'[k].st = "start"]_vars
  /\ [](\A s \in Starts : hc.pos[s] # "cycle" => ProbesOf(s) = {})

C28_Witness ==
  /\ hc.pos[1] = "cycle"
  /\ \E k \in ProbesOf(1) :
       /\ probe[k].st = "start"
       /\ heap[k.a].Status # ClusterStatusUnknown
  /\ \E a \in Range(clusters) : [s |-> 1, a |-> a] \notin DOMAIN probe

(* C29: a step of a probe changes nothing but the Status and the          *)
(* LastCheck of records: every other field of every record, the record    *)
(* map, the default pointer and the store stay as they are.               *)
C29_ProbeWritesStatusAndLastCheckOnly ==
  [][(\/ last'.op = "checkClusterHealth"
      \/ \E k \in DOMAIN probe \cap DOMAIN probe' : probe'[k].st # probe[k].st) =>
       /\ UNCHANGED <<clusters, defaultID, store>>
       /\ \A a \in DOMAIN heap \cap DOMAIN heap' :
            [heap'[a] EXCEPT !.Status = heap[a].Status,
                             !.LastCheck = heap[a].LastCheck] = heap[a]]_vars

(* C30: a step of a probe whose record is no longer in the registry       *)
(* changes neither the record map nor the default pointer nor any record  *)
(* that is in the registry.                                               *)
C30_ProbeOfRemovedRecordIsDiscarded ==
  [][\A k \in DOMAIN probe :
       (/\ k.a \notin Range(clusters)
        /\ k \notin DOMAIN probe' \/ probe'[k].st # probe[k].st) =>
         /\ UNCHANGED <<clusters, defaultID>>
         /\ \A a \in Range(clusters) : heap'[a] = heap[a]]_vars

C30_Witness ==
  /\ last.op = "checkClusterHealth"
  /\ last.id \notin DOMAIN clusters
  /\ last.outcome \in {"ReadyNode", "NoReadyNode"}
  /\ DOMAIN clusters # {}

(* C31: a step that a caller takes while it holds the registry's write    *)
(* lock makes no call of the persistence adapter: it leaves the store as  *)
(* it is.                                                                 *)
C31_NoStoreCallUnderTheLock ==
  [][\A p \in Procs :
       (mu.w = p /\ pc'[p] # pc[p]) => store' = store]_vars

(* C32: every probe terminates: a probe that is in flight can always take *)
(* its next step, whatever the endpoint does.                             *)
C32_EveryProbeTerminates ==
  \A k \in DOMAIN probe :
    ENABLED (checkClusterHealthVersion(k) \/ checkClusterHealthNodes(k))

(* C33: the default pointer and the IsDefault flags agree whenever no     *)
(* writer is inside a critical section: the pointer is empty or names a   *)
(* present record, that record is flagged, and no other record is.        *)
C33_PointerAndFlagsAgree ==
  (phase = "running" /\ mu.w = 0) =>
    /\ defaultID = "" \/ defaultID \in DOMAIN clusters
    /\ DefaultFlagged = IF defaultID = "" THEN {} ELSE {defaultID}

(* C34: a response of the HTTP ListClusters handler holds at most one     *)
(* cluster with isDefault = true.                                         *)
C34_ResponseHasAtMostOneDefault ==
  \A p \in Procs :
    (pc[p] = "hl_convert" /\ loc[p].list = {}) =>
      Cardinality({r \in loc[p].resp : r.isDefault}) <= 1

(* C35: with either manager behind the handlers, RemoveCluster,           *)
(* SetDefaultCluster and UpdateClusterLabels for an unknown id are        *)
(* answered with 404 and every other error with 400.                      *)
C35_UnknownIdIsAnswered404 ==
  last.op \in {"RemoveCluster", "SetDefaultCluster", "UpdateClusterLabels"} =>
    \A text \in {ErrorText(last.err, last.id), ManagerErrorText(last.err, last.id)} :
      HandlerStatus(text, last.id) =
        IF last.err = "" THEN 200
        ELSE IF last.id \notin DOMAIN clusters THEN 404 ELSE 400

(* C36: over any sequence of Start and Stop calls the stop channel is     *)
(* closed at most once: no Stop call closes a channel that is closed.     *)
C36_StopNeverClosesTwice ==
  ~(last.op = "Stop" /\ last.err = "Panic")

(* The records a read of ManagerWithDB returned, by value. *)
Returned(h, a) == IF a = NoObj THEN {} ELSE {h[a]}

(* C37: on the in-memory registry ManagerWithDB does what the memory-only *)
(* Manager does: each of AddCluster, RemoveCluster, SetDefaultCluster,    *)
(* UpdateClusterLabels, GetCluster, GetDefaultCluster and ListClusters    *)
(* succeeds or fails as the Manager's does and leaves the records, their  *)
(* IsDefault flags and the default pointer as the Manager's does, with    *)
(* the database up or down.                                               *)
C37_ManagersAgreeOnTheRegistry ==
  [][/\ last'.op = "RemoveCluster" =>
          [m |-> ManagerFields', err |-> last'.err]
            \in ManagerRemoveCluster(ManagerFields, last'.id)
     /\ last'.op = "UpdateClusterLabels" =>
          [m |-> ManagerFields', err |-> last'.err]
            = ManagerUpdateClusterLabels(ManagerFields, last'.id, last'.arg.labels, clock)
     /\ (last'.op = "SetDefaultCluster" /\ last'.err # "") =>
          [m |-> ManagerFields', err |-> last'.err]
            = ManagerSetDefaultCluster(ManagerFields, last'.id)
     /\ \A p \in Procs :
          /\ (pc[p] = "idle" /\ pc'[p] = "sd_clear") =>
               /\ ManagerFields' = ManagerFields
               /\ ManagerSetDefaultCluster(ManagerFields, loc'[p].id).err = ""
          /\ (pc[p] = "sd_clear" /\ pc'[p] = "sd_set") =>
               ManagerSetDefaultCluster(ManagerFields', loc[p].id)
                 = ManagerSetDefaultCluster(ManagerFields, loc[p].id)
          /\ (pc[p] = "sd_set" /\ pc'[p] = "idle") =>
               [m |-> ManagerFields', err |-> last'.err]
                 = ManagerSetDefaultCluster(ManagerFields, loc[p].id)
          /\ (pc[p] = "idle" /\ pc'[p] = "add_insert") =>
               /\ ManagerFields' = ManagerFields
               /\ \E content \in KubeconfigContents :
                    ManagerAddClusterBuild(loc'[p].arg.name, loc'[p].arg.description,
                                           content, loc'[p].arg.labels, clock)
                      = [err |-> "", info |-> heap'[loc'[p].addr]]
          /\ (pc[p] = "add_insert" /\ pc'[p] = "add_save") =>
               ManagerFields' = ManagerAddClusterInsert(ManagerFields, heap[loc[p].addr])
          /\ (pc[p] = "add_save" /\ pc'[p] = "idle") =>
               /\ ManagerFields' = ManagerFields
               /\ last'.op = "AddCluster" /\ last'.err = ""
               /\ Returned(heap', last'.ret) = {ManagerFields.clusters[last'.id]}
     /\ (last'.op = "AddCluster" /\ last'.err # "") =>
          /\ ManagerFields' = ManagerFields
          /\ \E content \in KubeconfigContents :
               ManagerAddClusterBuild("A", "d", content, NilLabels, clock).err
                 = last'.err
     /\ last'.op = "GetCluster" =>
          /\ ManagerFields' = ManagerFields
          /\ [err |-> last'.err, ret |-> Returned(heap', last'.ret)]
               = ManagerGetCluster(ManagerFields, last'.id)
     /\ last'.op = "GetDefaultCluster" =>
          /\ ManagerFields' = ManagerFields
          /\ [err |-> last'.err, ret |-> Returned(heap', last'.ret)]
               = ManagerGetDefaultCluster(ManagerFields)
     /\ last'.op = "ListClusters" =>
          /\ ManagerFields' = ManagerFields
          /\ {heap'[a] : a \in last'.list} = ManagerListClusters(ManagerFields)
    ]_vars

(* A removal that went through in memory while the store refused it. *)
C37_Witness ==
  /\ last.op = "RemoveCluster" /\ last.err = ""
  /\ ~dbUp /\ last.id \in Persisted(store)
  /\ defaultID # "" /\ DefaultFlagged = {defaultID}

(* C38: after the kubeconfig discovery of the memory-only Manager, a      *)
(* registry that is not empty holds exactly one record with IsDefault =   *)
(* true, the one the default pointer names.                               *)
C38_DiscoveryLeavesOneDefault ==
  (phase = "discovered" /\ DOMAIN clusters # {}) =>
    /\ defaultID \in DOMAIN clusters
    /\ DefaultFlagged = {defaultID}

====
